---- MODULE Spec2Model ----
\* Model of the task exchange protocol of a2a_samples: the Flask server
\* (server/tell_time_server.py) with its discovery and task endpoints, and
\* the requests-based client (client/time_client.py).
\*
\* Python strings are sequences of one-character strings, so that formatting
\* (strftime, f-strings, str(exception)) is computed character by character.
\* JSON values are records of one uniform shape, tagged by "kind".
EXTENDS Integers, Sequences, FiniteSets, TLC

\* ---------------------------------------------------------------- bounds
\* number of task requests the server receives (each served by its own
\* request context / thread)
MaxRequests ==
    2

\* number of discovery requests the server receives
MaxDiscoveries ==
    2

\* number of seconds the wall clock advances
MaxTicks ==
    1

\* number of send_task calls a client run makes
MaxTasks ==
    2

\* number of TellTimeAgent.invoke calls made on the agent
MaxInvokes ==
    3

\* ------------------------------------------------------- string literals
\* "Invalid JSON format"
S_InvalidJSON ==
    <<"I","n","v","a","l","i","d"," ","J","S","O","N"," ","f","o","r","m","a","t">>

\* "Request body is empty"
S_BodyEmpty ==
    <<"R","e","q","u","e","s","t"," ","b","o","d","y"," ","i","s"," ","e","m","p","t","y">>

\* "Invalid task format: "
S_InvalidTask ==
    <<"I","n","v","a","l","i","d"," ","t","a","s","k"," ","f","o","r","m","a","t",":"," ">>

\* "Current time is: "
S_CurrentTimeIs ==
    <<"C","u","r","r","e","n","t"," ","t","i","m","e"," ","i","s",":"," ">>

\* "success"
S_success ==
    <<"s","u","c","c","e","s","s">>

\* "error"
S_error ==
    <<"e","r","r","o","r">>

\* "agent"
S_agent ==
    <<"a","g","e","n","t">>

\* "user"
S_user ==
    <<"u","s","e","r">>

\* "hello"
S_hello ==
    <<"h","e","l","l","o">>

\* "t1"
S_t1 ==
    <<"t","1">>

\* "t2"
S_t2 ==
    <<"t","2">>

\* "list index out of range"
S_ListIndexRange ==
    <<"l","i","s","t"," ","i","n","d","e","x"," ","o","u","t"," ","o","f"," ","r","a","n","g","e">>

\* "string index out of range"
S_StrIndexRange ==
    <<"s","t","r","i","n","g"," ","i","n","d","e","x"," ","o","u","t"," ","o","f"," ","r","a","n","g","e">>

\* "list indices must be integers or slices, not str"
S_ListIndices ==
    <<"l","i","s","t"," ","i","n","d","i","c","e","s"," ","m","u","s","t"," ","b","e"," ","i","n","t","e","g","e","r","s"," ","o","r"," ","s","l","i","c","e","s",","," ","n","o","t"," ","s","t","r">>

\* "string indices must be integers, not 'str'"
S_StrIndices ==
    <<"s","t","r","i","n","g"," ","i","n","d","i","c","e","s"," ","m","u","s","t"," ","b","e"," ","i","n","t","e","g","e","r","s",","," ","n","o","t"," ","'","s","t","r","'">>

\* " object is not subscriptable"
S_NotSubscriptable ==
    <<" ","o","b","j","e","c","t"," ","i","s"," ","n","o","t"," ","s","u","b","s","c","r","i","p","t","a","b","l","e">>

\* "Time Teller"
S_TimeTeller ==
    <<"T","i","m","e"," ","T","e","l","l","e","r">>

\* "An agent that tells the current time based on the provided timezone."
S_Description ==
    <<"A","n"," ","a","g","e","n","t"," ","t","h","a","t"," ","t","e","l","l","s"," ","t","h","e"," ","c","u","r","r","e","n","t"," ","t","i","m","e"," ","b","a","s","e","d"," ","o","n"," ","t","h","e"," ","p","r","o","v","i","d","e","d"," ","t","i","m","e","z","o","n","e",".">>

\* "http://localhost:5000/tell_time"
S_Url ==
    <<"h","t","t","p",":","/","/","l","o","c","a","l","h","o","s","t",":","5","0","0","0","/","t","e","l","l","_","t","i","m","e">>

\* "1.0.0"
S_Version ==
    <<"1",".","0",".","0">>

\* "What is the current time?"
S_Question ==
    <<"W","h","a","t"," ","i","s"," ","t","h","e"," ","c","u","r","r","e","n","t"," ","t","i","m","e","?">>

\* ------------------------------------------------------------ JSON values
JV(kind, s, n, items, pairs) ==
    [kind |-> kind, s |-> s, n |-> n, items |-> items, pairs |-> pairs]

\* json null / Python None
JNull ==
    JV("null", <<>>, 0, <<>>, <<>>)

\* json string / Python str
JStr(chars) ==
    JV("str", chars, 0, <<>>, <<>>)

\* json integer / Python int
JInt(n) ==
    JV("int", <<>>, n, <<>>, <<>>)

\* json false, true / Python bool
JBool(b) ==
    JV("bool", <<>>, IF b THEN 1 ELSE 0, <<>>, <<>>)

\* json array / Python list
JList(items) ==
    JV("list", <<>>, 0, items, <<>>)

\* json object / Python dict: the <<key, value>> pairs in insertion order
JDict(pairs) ==
    JV("dict", <<>>, 0, <<>>, pairs)

\* the body of a response that is not JSON (an HTML error page)
NotJson ==
    JV("html", <<>>, 0, <<>>, <<>>)

HasKey(v, k) ==
    /\ v.kind = "dict"
    /\ \E j \in 1..Len(v.pairs) : v.pairs[j][1] = k

\* d[k] of a dict that has the key
Lookup(v, k) ==
    v.pairs[CHOOSE j \in 1..Len(v.pairs) : v.pairs[j][1] = k][2]

\* repr() of a dictionary key, as str(KeyError(key)) prints it
ReprKey(k) ==
    CASE k = "id" -> <<"'","i","d","'">>
      [] k = "message" -> <<"'","m","e","s","s","a","g","e","'">>
      [] k = "parts" -> <<"'","p","a","r","t","s","'">>
      [] k = "text" -> <<"'","t","e","x","t","'">>
      [] OTHER -> <<"'","?","'">>

\* type(v).__name__ in quotes
ReprType(v) ==
    CASE v.kind = "null" -> <<"'","N","o","n","e","T","y","p","e","'">>
      [] v.kind = "int" -> <<"'","i","n","t","'">>
      [] v.kind = "bool" -> <<"'","b","o","o","l","'">>
      [] OTHER -> <<"'","o","b","j","e","c","t","'">>

\* the result of a Python expression: a value, or a raised exception with
\* the text str(e) gives
Value(v) ==
    [ok |-> TRUE, val |-> v, exc |-> "", detail |-> <<>>]

Raise(exc, detail) ==
    [ok |-> FALSE, val |-> JNull, exc |-> exc, detail |-> detail]

\* v[k] for a string key k
Subscript(v, k) ==
    CASE v.kind = "dict" ->
            IF HasKey(v, k) THEN Value(Lookup(v, k))
            ELSE Raise("KeyError", ReprKey(k))
      [] v.kind = "list" -> Raise("TypeError", S_ListIndices)
      [] v.kind = "str" -> Raise("TypeError", S_StrIndices)
      [] OTHER -> Raise("TypeError", ReprType(v) \o S_NotSubscriptable)

\* v[0]
Index0(v) ==
    CASE v.kind = "list" ->
            IF Len(v.items) = 0 THEN Raise("IndexError", S_ListIndexRange)
            ELSE Value(v.items[1])
      [] v.kind = "str" ->
            IF Len(v.s) = 0 THEN Raise("IndexError", S_StrIndexRange)
            ELSE Value(JStr(<<v.s[1]>>))
      [] v.kind = "dict" -> Raise("KeyError", <<"0">>)
      [] OTHER -> Raise("TypeError", ReprType(v) \o S_NotSubscriptable)

\* ------------------------------------------------------------- wall clock
DateTime(Y, M, D, h, m, s) ==
    [year |-> Y, month |-> M, day |-> D, hour |-> h, minute |-> m, second |-> s]

IsLeap(Y) ==
    (Y % 4 = 0 /\ Y % 100 # 0) \/ Y % 400 = 0

DaysInMonth(Y, M) ==
    CASE M \in {4, 6, 9, 11} -> 30
      [] M = 2 -> IF IsLeap(Y) THEN 29 ELSE 28
      [] OTHER -> 31

\* the wall clock one second later
NextSecond(t) ==
    IF t.second < 59 THEN [t EXCEPT !.second = t.second + 1]
    ELSE IF t.minute < 59 THEN [t EXCEPT !.second = 0, !.minute = t.minute + 1]
    ELSE IF t.hour < 23 THEN [t EXCEPT !.second = 0, !.minute = 0, !.hour = t.hour + 1]
    ELSE IF t.day < DaysInMonth(t.year, t.month)
         THEN DateTime(t.year, t.month, t.day + 1, 0, 0, 0)
    ELSE IF t.month < 12 THEN DateTime(t.year, t.month + 1, 1, 0, 0, 0)
    ELSE DateTime(t.year + 1, 1, 1, 0, 0, 0)

Digit(d) ==
    CASE d = 0 -> "0" [] d = 1 -> "1" [] d = 2 -> "2" [] d = 3 -> "3"
      [] d = 4 -> "4" [] d = 5 -> "5" [] d = 6 -> "6" [] d = 7 -> "7"
      [] d = 8 -> "8" [] d = 9 -> "9"

\* n in decimal without padding, as '%-d' would print it
RECURSIVE Pad_unpadded(_, _)
Pad_unpadded(n, w) ==
    IF n < 10 THEN <<Digit(n)>>
    ELSE Pad_unpadded(n \div 10, w - 1) \o <<Digit(n % 10)>>

\* n in decimal, zero-padded to at least w digits
RECURSIVE Pad(_, _)
Pad(n, w) ==
    IF w <= 1 /\ n < 10 THEN <<Digit(n)>>
    ELSE Pad(n \div 10, w - 1) \o <<Digit(n % 10)>>

\* t.strftime('%Y-%m-%d %H:%M:%S')
strftime(t) ==
    Pad(t.year, 4) \o <<"-">> \o Pad(t.month, 2) \o <<"-">> \o Pad(t.day, 2)
      \o <<" ">> \o Pad(t.hour, 2) \o <<":">> \o Pad(t.minute, 2)
      \o <<":">> \o Pad(t.second, 2)

\* the moment the server is started at
StartTime ==
    DateTime(2024, 12, 31, 23, 59, 59)

\* ----------------------------------------------------------------- state
VARIABLES
    clock,          \* what datetime.now() returns
    ticks,          \* seconds elapsed since the server started
    cards,          \* the responses to GET /.well-known/agent.json so far
    pc,             \* position of each task request in handle_task
    request,        \* flask.request of each task request
    data,           \* local of handle_task: request.get_json()
    task_id,        \* local of handle_task
    user_message,   \* local of handle_task
    current_time,   \* local of handle_task
    reply_text,     \* local of handle_task
    response,       \* what handle_task returned
    path,           \* the positions each task request went through
    checks,         \* the validation checks evaluated for each task request
    read_at,        \* value of ticks when handle_task read the clock
    c_pc,           \* position of the client run
    res,            \* client: the discovery response
    discovered,     \* client: agent_info = res.json()
    calls,          \* client: the send_task calls made, with their outcome
    gets,           \* client: GET requests issued
    posts,          \* client: POST requests issued
    sessions,       \* agent: the sessions of _runner.session_service
    session_ops,    \* agent: the calls made on the session service and runner
    invocations     \* agent: the invoke calls made, with their outcome

server_vars ==
    <<clock, ticks, cards, pc, request, data, task_id, user_message,
      current_time, reply_text, response, path, checks, read_at>>

client_vars ==
    <<c_pc, res, discovered, calls, gets, posts>>

agent_vars ==
    <<sessions, session_ops, invocations>>

vars ==
    <<clock, ticks, cards, pc, request, data, task_id, user_message,
      current_time, reply_text, response, path, checks, read_at,
      c_pc, res, discovered, calls, gets, posts,
      sessions, session_ops, invocations>>

Reqs ==
    1..MaxRequests

\* --------------------------------------------------------- HTTP requests
\* A POST to /tasks/send: its Content-Type, and its body, which is JSON
\* text (raw = "json", json = the value it parses to), text that is not
\* JSON (raw = "malformed") or no bytes at all (raw = "empty").
Request(mimetype, raw, json) ==
    [mimetype |-> mimetype, raw |-> raw, json |-> json]

NoRequest ==
    Request("", "none", JNull)

Part(text) ==
    JDict(<< <<"text", text>> >>)

\* a Message as the client builds it: role, parts, metadata
Msg(parts) ==
    JDict(<< <<"role", JStr(S_user)>>, <<"parts", parts>>,
             <<"metadata", JDict(<<>>)>> >>)

\* a TaskRequest body
Task(id, message) ==
    JDict(<< <<"id", id>>, <<"message", message>> >>)

HelloMsg ==
    Msg(JList(<< Part(JStr(S_hello)) >>))

\* a message with a second part, extra keys in a part and in the message,
\* and non-empty metadata
RichMsg ==
    JDict(<< <<"metadata", JDict(<< <<"k", JInt(1)>> >>)>>,
             <<"parts", JList(<< JDict(<< <<"kind", JStr(S_user)>>,
                                          <<"text", JStr(S_hello)>> >>),
                                 Part(JStr(S_t1)) >>)>>,
             <<"role", JStr(S_user)>>,
             <<"extra", JBool(TRUE)>> >>)

\* bodies with id and message.parts[0].text present
PresentBodies ==
    { Task(JStr(S_t1), HelloMsg),
      JDict(<< <<"message", RichMsg>>, <<"id", JStr(S_t2)>>,
               <<"priority", JInt(3)>> >>),
      Task(JInt(5), Msg(JList(<< Part(JInt(7)) >>))) }

\* bodies that are JSON but lack id or message.parts[0].text
LackingBodies ==
    { JNull, JDict(<<>>), JList(<<>>),
      JDict(<< <<"message", HelloMsg>> >>),
      JDict(<< <<"id", JStr(S_t1)>> >>),
      Task(JStr(S_t1), JDict(<< <<"role", JStr(S_user)>> >>)),
      Task(JStr(S_t1), Msg(JList(<<>>))),
      Task(JStr(S_t1), Msg(JList(<< JDict(<<>>) >>))),
      Task(JStr(S_t1), JStr(S_hello)),
      Task(JStr(S_t1), Msg(JStr(S_hello))),
      Task(JStr(S_t1), Msg(JDict(<<>>))) }

\* the requests a caller may post
Requests ==
    { Request("application/json", "json", b) : b \in PresentBodies \cup LackingBodies }
      \cup { Request("application/json", "malformed", JNull),
             Request("application/json", "empty", JNull),
             Request("text/plain", "json", Task(JStr(S_t1), HelloMsg)) }

\* --------------------------------------------------------- HTTP responses
Response(code, mimetype, json) ==
    [code |-> code, mimetype |-> mimetype, json |-> json]

NoResponse ==
    Response(0, "", JNull)

\* flask.jsonify(value), optionally returned with a status code
jsonify(value, code) ==
    Response(code, "application/json", value)

\* the page werkzeug renders for a BadRequest raised inside a view
BadRequest ==
    Response(400, "text/html", NotJson)

\* request.is_json: the Content-Type announces JSON
is_json(r) ==
    r.mimetype \in {"application/json", "application/vnd.api+json"}

\* {'status': 'error', 'message': message}
ErrorBody(message) ==
    JDict(<< <<"status", JStr(S_error)>>, <<"message", JStr(message)>> >>)

\* ---------------------------------------------------------- agent_card
\* a descriptor that reports the time it was served at
agent_info_timed ==
    JDict(<< <<"name", JStr(S_TimeTeller)>>,
             <<"description", JStr(S_Description)>>,
             <<"url", JStr(S_Url)>>,
             <<"capabilities", JDict(<< <<"streaming", JBool(FALSE)>>,
                                        <<"pushNotifications", JBool(FALSE)>> >>)>>,
             <<"version", JStr(strftime(clock))>> >>)

agent_info ==
    JDict(<< <<"name", JStr(S_TimeTeller)>>,
             <<"description", JStr(S_Description)>>,
             <<"url", JStr(S_Url)>>,
             <<"capabilities", JDict(<< <<"streaming", JBool(FALSE)>>,
                                        <<"pushNotifications", JBool(FALSE)>> >>)>>,
             <<"version", JStr(S_Version)>> >>)

\* ---------------------------------------------------------- handle_task
\* the try block: task_id = data['id'];
\* user_message = data['message']['parts'][0]['text']
Extract(d) ==
    LET id == Subscript(d, "id")
        message == Subscript(d, "message")
        parts == Subscript(message.val, "parts")
        first == Index0(parts.val)
        text == Subscript(first.val, "text")
        failed == IF ~id.ok THEN id
                  ELSE IF ~message.ok THEN message
                  ELSE IF ~parts.ok THEN parts
                  ELSE IF ~first.ok THEN first
                  ELSE text
    IN  [ok |-> failed.ok, task_id |-> id.val, user_message |-> text.val,
         exc |-> failed.exc, detail |-> failed.detail]

\* the validation with the try block ahead of the None test
Validation_fieldsfirst(r) ==
    IF ~is_json(r)
    THEN [passed |-> FALSE, checks |-> <<"is_json">>,
          response |-> jsonify(ErrorBody(S_InvalidJSON), 400)]
    ELSE IF r.raw # "json"
    THEN [passed |-> FALSE, checks |-> <<"is_json", "fields">>,
          response |-> BadRequest]
    ELSE IF ~Extract(r.json).ok
    THEN [passed |-> FALSE, checks |-> <<"is_json", "fields">>,
          response |-> jsonify(ErrorBody(S_InvalidTask \o Extract(r.json).detail), 400)]
    ELSE [passed |-> TRUE, checks |-> <<"is_json", "fields", "json_none">>,
          response |-> NoResponse]

\* The validation of handle_task: the checks in the order the code makes
\* them, the first failing one deciding the response.  checks lists the
\* checks that were evaluated.
Validation(r) ==
    IF ~is_json(r)
    THEN [passed |-> FALSE, checks |-> <<"is_json">>,
          response |-> jsonify(ErrorBody(S_InvalidJSON), 400)]
    ELSE IF r.raw # "json"
    THEN [passed |-> FALSE, checks |-> <<"is_json", "json_none">>,
          response |-> BadRequest]
    ELSE IF r.json.kind = "null"
    THEN [passed |-> FALSE, checks |-> <<"is_json", "json_none">>,
          response |-> jsonify(ErrorBody(S_BodyEmpty), 400)]
    ELSE IF ~Extract(r.json).ok
    THEN [passed |-> FALSE, checks |-> <<"is_json", "json_none", "fields">>,
          response |-> jsonify(ErrorBody(S_InvalidTask \o Extract(r.json).detail), 400)]
    ELSE [passed |-> TRUE, checks |-> <<"is_json", "json_none", "fields">>,
          response |-> NoResponse]

\* the reply message of the agent
ReplyMessage(text) ==
    JDict(<< <<"role", JStr(S_agent)>>,
             <<"parts", JList(<< JDict(<< <<"text", JStr(text)>> >>) >>)>>,
             <<"metadata", JDict(<<>>)>> >>)

\* the response dict with the original message rebuilt from its first
\* part instead of echoed
SuccessBody_rebuilt(id, d, text) ==
    JDict(<< <<"status", JStr(S_success)>>,
             <<"id", id>>,
             <<"messages", JList(<< Msg(JList(<< Part(Extract(d).user_message) >>)),
                                    ReplyMessage(text) >>)>> >>)

\* the response dict of a processed task
SuccessBody(id, d, text) ==
    JDict(<< <<"status", JStr(S_success)>>,
             <<"id", id>>,
             <<"messages", JList(<< Lookup(d, "message"), ReplyMessage(text) >>)>> >>)

\* --------------------------------------------------------------- actions
ServerInit ==
    /\ clock = StartTime
    /\ ticks = 0
    /\ cards = <<>>
    /\ pc = [i \in Reqs |-> "idle"]
    /\ request = [i \in Reqs |-> NoRequest]
    /\ data = [i \in Reqs |-> JNull]
    /\ task_id = [i \in Reqs |-> JNull]
    /\ user_message = [i \in Reqs |-> JNull]
    /\ current_time = [i \in Reqs |-> <<>>]
    /\ reply_text = [i \in Reqs |-> <<>>]
    /\ response = [i \in Reqs |-> NoResponse]
    /\ path = [i \in Reqs |-> <<>>]
    /\ checks = [i \in Reqs |-> <<>>]
    /\ read_at = [i \in Reqs |-> 0]

ClientIdle ==
    /\ c_pc = "start"
    /\ res = NoResponse
    /\ discovered = JNull
    /\ calls = <<>>
    /\ gets = 0
    /\ posts = 0

\* TellTimeAgent.__init__: a runner with an empty InMemorySessionService
AgentInit ==
    /\ sessions = {}
    /\ session_ops = <<>>
    /\ invocations = <<>>

Init ==
    /\ ServerInit
    /\ ClientIdle
    /\ AgentInit

\* the wall clock advances by a second
Tick ==
    /\ ticks < MaxTicks
    /\ ticks' = ticks + 1
    /\ clock' = NextSecond(clock)
    /\ UNCHANGED <<cards, pc, request, data, task_id, user_message,
                   current_time, reply_text, response, path, checks, read_at>>
    /\ UNCHANGED client_vars
    /\ UNCHANGED agent_vars

\* GET /.well-known/agent.json
agent_card ==
    /\ Len(cards) < MaxDiscoveries
    /\ cards' = Append(cards, jsonify(agent_info, 200))
    /\ UNCHANGED <<clock, ticks, pc, request, data, task_id, user_message,
                   current_time, reply_text, response, path, checks, read_at>>
    /\ UNCHANGED client_vars
    /\ UNCHANGED agent_vars

\* the validation with task_id kept in one module-level variable that
\* every request writes
Validate_global(i) ==
    /\ pc[i] = "idle"
    /\ \A j \in Reqs : j < i => pc[j] # "idle"
    /\ \E r \in Requests :
          LET v == Validation(r)
          IN  /\ request' = [request EXCEPT ![i] = r]
              /\ checks' = [checks EXCEPT ![i] = v.checks]
              /\ IF v.passed
                 THEN /\ data' = [data EXCEPT ![i] = r.json]
                      /\ task_id' = [j \in Reqs |-> Extract(r.json).task_id]
                      /\ user_message' = [user_message EXCEPT ![i] =
                                             Extract(r.json).user_message]
                      /\ pc' = [pc EXCEPT ![i] = "validated"]
                      /\ path' = [path EXCEPT ![i] = <<"received", "validated">>]
                      /\ UNCHANGED response
                 ELSE /\ response' = [response EXCEPT ![i] = v.response]
                      /\ pc' = [pc EXCEPT ![i] = "responded"]
                      /\ path' = [path EXCEPT ![i] = <<"received", "responded">>]
                      /\ UNCHANGED <<data, task_id, user_message>>
    /\ UNCHANGED <<clock, ticks, cards, current_time, reply_text, read_at>>
    /\ UNCHANGED client_vars
    /\ UNCHANGED agent_vars

\* a POST /tasks/send arrives, gets its request context, and handle_task
\* validates it: is_json, json is None, the try block
Validate(i) ==
    /\ pc[i] = "idle"
    /\ \A j \in Reqs : j < i => pc[j] # "idle"
    /\ \E r \in Requests :
          LET v == Validation(r)
          IN  /\ request' = [request EXCEPT ![i] = r]
              /\ checks' = [checks EXCEPT ![i] = v.checks]
              /\ IF v.passed
                 THEN /\ data' = [data EXCEPT ![i] = r.json]
                      /\ task_id' = [task_id EXCEPT ![i] = Extract(r.json).task_id]
                      /\ user_message' = [user_message EXCEPT ![i] =
                                             Extract(r.json).user_message]
                      /\ pc' = [pc EXCEPT ![i] = "validated"]
                      /\ path' = [path EXCEPT ![i] = <<"received", "validated">>]
                      /\ UNCHANGED response
                 ELSE /\ response' = [response EXCEPT ![i] = v.response]
                      /\ pc' = [pc EXCEPT ![i] = "responded"]
                      /\ path' = [path EXCEPT ![i] = <<"received", "responded">>]
                      /\ UNCHANGED <<data, task_id, user_message>>
    /\ UNCHANGED <<clock, ticks, cards, current_time, reply_text, read_at>>
    /\ UNCHANGED client_vars
    /\ UNCHANGED agent_vars

\* handle_task, the reply: current_time and reply_text
Process(i) ==
    /\ pc[i] = "validated"
    /\ current_time' = [current_time EXCEPT ![i] = strftime(clock)]
    /\ reply_text' = [reply_text EXCEPT ![i] = S_CurrentTimeIs \o strftime(clock)]
    /\ read_at' = [read_at EXCEPT ![i] = ticks]
    /\ pc' = [pc EXCEPT ![i] = "processed"]
    /\ path' = [path EXCEPT ![i] = Append(path[i], "processed")]
    /\ UNCHANGED <<clock, ticks, cards, request, data, task_id, user_message,
                   response, checks>>
    /\ UNCHANGED client_vars
    /\ UNCHANGED agent_vars

\* the response envelope with the id of the first task the server saw
Respond_firstid(i) ==
    /\ pc[i] = "processed"
    /\ response' = [response EXCEPT ![i] =
                       jsonify(SuccessBody(task_id[1], data[i], reply_text[i]), 200)]
    /\ pc' = [pc EXCEPT ![i] = "responded"]
    /\ path' = [path EXCEPT ![i] = Append(path[i], "responded")]
    /\ UNCHANGED <<clock, ticks, cards, request, data, task_id, user_message,
                   current_time, reply_text, checks, read_at>>
    /\ UNCHANGED client_vars
    /\ UNCHANGED agent_vars

\* handle_task, the response envelope
Respond(i) ==
    /\ pc[i] = "processed"
    /\ response' = [response EXCEPT ![i] =
                       jsonify(SuccessBody(task_id[i], data[i], reply_text[i]), 200)]
    /\ pc' = [pc EXCEPT ![i] = "responded"]
    /\ path' = [path EXCEPT ![i] = Append(path[i], "responded")]
    /\ UNCHANGED <<clock, ticks, cards, request, data, task_id, user_message,
                   current_time, reply_text, checks, read_at>>
    /\ UNCHANGED client_vars
    /\ UNCHANGED agent_vars

Next ==
    \/ Tick
    \/ agent_card
    \/ \E i \in Reqs : Validate(i)
    \/ \E i \in Reqs : Process(i)
    \/ \E i \in Reqs : Respond(i)

Spec ==
    Init /\ [][Next]_vars

\* ------------------------------------------------------------ the client
\* handle_task as one call: what the server answers to request r when the
\* clock reads t
handle_task(r, t) ==
    IF Validation(r).passed
    THEN jsonify(SuccessBody(Extract(r.json).task_id, r.json,
                             S_CurrentTimeIs \o strftime(t)), 200)
    ELSE Validation(r).response

\* status codes of the answers that do not come from the two endpoints:
\* another success code, a redirect target missing, a proxy or server fault
RemoteFailures ==
    { Response(c, "text/html", NotJson) : c \in {201, 204, 404, 500, 503} }

\* the payload send_task builds
Payload(id, message) ==
    JDict(<< <<"id", id>>,
             <<"message", JDict(<< <<"role", JStr(S_user)>>,
                                   <<"parts", JList(<< JDict(<< <<"text", message>> >>) >>)>>,
                                   <<"metadata", JDict(<<>>)>> >>)>> >>)

\* the task ids uuid.uuid4() may give, and the messages a caller sends
TaskIds ==
    { JStr(S_t1), JStr(S_t2) }

Messages ==
    { JStr(S_Question), JStr(S_hello) }

\* discovery without the status check
Discover_unchecked ==
    /\ c_pc = "start"
    /\ gets' = gets + 1
    /\ \/ /\ c_pc' = "network_error"
          /\ UNCHANGED <<res, discovered>>
       \/ \E r \in {jsonify(agent_info, 200)} \cup RemoteFailures :
             /\ res' = r
             /\ c_pc' = "discovered"
             /\ discovered' = r.json
    /\ UNCHANGED <<calls, posts>>
    /\ UNCHANGED server_vars
    /\ UNCHANGED agent_vars

\* module level, "Step 1: discover the agent": one GET, then the status check
Discover ==
    /\ c_pc = "start"
    /\ gets' = gets + 1
    /\ \/ \* requests.get raises (connection refused): the run ends
          /\ c_pc' = "network_error"
          /\ UNCHANGED <<res, discovered>>
       \/ \E r \in {jsonify(agent_info, 200)} \cup RemoteFailures :
             /\ res' = r
             /\ IF r.code # 200
                THEN /\ c_pc' = "discovery_failed"
                     /\ UNCHANGED discovered
                ELSE /\ c_pc' = "discovered"
                     /\ discovered' = r.json
    /\ UNCHANGED <<calls, posts>>
    /\ UNCHANGED server_vars
    /\ UNCHANGED agent_vars

\* send_task(task_id, message): one POST, then the status check
send_task(id, message) ==
    /\ c_pc = "discovered"
    /\ Len(calls) < MaxTasks
    /\ posts' = posts + 1
    /\ \/ \* requests.post raises: the exception leaves send_task
          calls' = Append(calls, [payload |-> Payload(id, message),
                                  outcome |-> "network_error",
                                  response |-> NoResponse,
                                  result |-> JNull])
       \/ \E r \in {handle_task(Request("application/json", "json",
                                        Payload(id, message)), clock)}
                     \cup RemoteFailures :
             calls' = Append(calls, [payload |-> Payload(id, message),
                                     outcome |-> IF r.code = 200 THEN "returned"
                                                 ELSE "raised",
                                     response |-> r,
                                     result |-> IF r.code = 200 THEN r.json
                                                ELSE JNull])
    /\ UNCHANGED <<c_pc, res, discovered, gets>>
    /\ UNCHANGED server_vars
    /\ UNCHANGED agent_vars

ClientNext ==
    \/ Discover
    \/ \E id \in TaskIds, message \in Messages : send_task(id, message)

ClientSpec ==
    Init /\ [][ClientNext]_vars

\* ================================================================ claims
\* ------------------------------------------------- vocabulary of the claims
Responded(i) ==
    pc[i] = "responded"

\* the request was posted as JSON and its body is JSON text
PostedAsJson(r) ==
    r.mimetype = "application/json" /\ r.raw = "json"

\* b has message.parts as a non-empty list
PartsPresent(b) ==
    /\ b.kind = "dict"
    /\ \E j \in 1..Len(b.pairs) :
          /\ b.pairs[j][1] = "message"
          /\ b.pairs[j][2].kind = "dict"
          /\ \E k \in 1..Len(b.pairs[j][2].pairs) :
                /\ b.pairs[j][2].pairs[k][1] = "parts"
                /\ b.pairs[j][2].pairs[k][2].kind = "list"
                /\ Len(b.pairs[j][2].pairs[k][2].items) > 0

\* message.parts[0] of a body that has it
FirstPart(b) ==
    Lookup(Lookup(b, "message"), "parts").items[1]

\* a valid TaskRequest body: id present, message.parts[0].text present
ValidBody(b) ==
    /\ PartsPresent(b)
    /\ \E j \in 1..Len(b.pairs) : b.pairs[j][1] = "id"
    /\ FirstPart(b).kind = "dict"
    /\ \E j \in 1..Len(FirstPart(b).pairs) : FirstPart(b).pairs[j][1] = "text"

ValidRequest(r) ==
    PostedAsJson(r) /\ ValidBody(r.json)

\* the response is a JSON object with status = status
HasStatus(resp, status) ==
    /\ resp.mimetype = "application/json"
    /\ resp.json.kind = "dict"
    /\ \E j \in 1..Len(resp.json.pairs) :
          resp.json.pairs[j] = <<"status", JStr(status)>>

\* the response is a success envelope: 200, status = success
IsSuccess(resp) ==
    resp.code = 200 /\ HasStatus(resp, S_success)

\* the response is a structured error: 400, status = error and a
\* non-empty message string
IsError(resp) ==
    /\ resp.code = 400
    /\ HasStatus(resp, S_error)
    /\ \E j \in 1..Len(resp.json.pairs) :
          /\ resp.json.pairs[j][1] = "message"
          /\ resp.json.pairs[j][2].kind = "str"
          /\ Len(resp.json.pairs[j][2].s) > 0

IsPrefix(a, b) ==
    Len(a) <= Len(b) /\ SubSeq(b, 1, Len(a)) = a

Contains(s, sub) ==
    \E j \in 1..(Len(s) - Len(sub) + 1) : SubSeq(s, j, j + Len(sub) - 1) = sub

IsDigit(c) ==
    c \in {"0", "1", "2", "3", "4", "5", "6", "7", "8", "9"}

\* s matches ^\d{4}-\d{2}-\d{2} \d{2}:\d{2}:\d{2}$
MatchesTimestamp(s) ==
    /\ Len(s) = 19
    /\ \A j \in {1, 2, 3, 4, 6, 7, 9, 10, 12, 13, 15, 16, 18, 19} : IsDigit(s[j])
    /\ s[5] = "-" /\ s[8] = "-" /\ s[11] = " " /\ s[14] = ":" /\ s[17] = ":"

DigitVal(c) ==
    CHOOSE d \in 0..9 : Digit(d) = c

\* the number a string of digits denotes
RECURSIVE Num(_)
Num(s) ==
    IF s = <<>> THEN 0
    ELSE 10 * Num(SubSeq(s, 1, Len(s) - 1)) + DigitVal(s[Len(s)])

\* the wall clock k seconds after the server started
RECURSIVE ClockAt(_)
ClockAt(k) ==
    IF k = 0 THEN StartTime ELSE NextSecond(ClockAt(k - 1))

\* s is the timestamp YYYY-MM-DD HH:MM:SS of the moment t
Denotes(s, t) ==
    /\ MatchesTimestamp(s)
    /\ Num(SubSeq(s, 1, 4)) = t.year
    /\ Num(SubSeq(s, 6, 7)) = t.month
    /\ Num(SubSeq(s, 9, 10)) = t.day
    /\ Num(SubSeq(s, 12, 13)) = t.hour
    /\ Num(SubSeq(s, 15, 16)) = t.minute
    /\ Num(SubSeq(s, 18, 19)) = t.second

\* the messages of a success response
MessagesOf(resp) ==
    Lookup(resp.json, "messages").items

\* m is a reply message: role = agent, empty metadata, exactly one part
\* that carries a string text and nothing else
IsReply(m) ==
    /\ m.kind = "dict"
    /\ Len(m.pairs) = 3
    /\ HasKey(m, "role") /\ Lookup(m, "role") = JStr(S_agent)
    /\ HasKey(m, "metadata") /\ Lookup(m, "metadata") = JDict(<<>>)
    /\ HasKey(m, "parts")
    /\ Lookup(m, "parts").kind = "list"
    /\ Len(Lookup(m, "parts").items) = 1
    /\ Lookup(m, "parts").items[1].kind = "dict"
    /\ Len(Lookup(m, "parts").items[1].pairs) = 1
    /\ Lookup(m, "parts").items[1].pairs[1][1] = "text"
    /\ Lookup(m, "parts").items[1].pairs[1][2].kind = "str"

ReplyText(m) ==
    Lookup(m, "parts").items[1].pairs[1][2].s

C2_MessagesEchoed ==
    \A i \in Reqs :
        Responded(i) /\ ValidRequest(request[i]) =>
            /\ HasKey(response[i].json, "messages")
            /\ Lookup(response[i].json, "messages").kind = "list"
            /\ Len(MessagesOf(response[i])) = 2
            /\ MessagesOf(response[i])[1] = Lookup(request[i].json, "message")
            /\ HasKey(MessagesOf(response[i])[2], "role")
            /\ Lookup(MessagesOf(response[i])[2], "role") = JStr(S_agent)

\* a message with two parts, extra keys and metadata came back
C2_Witness ==
    \E i \in Reqs :
        /\ Responded(i)
        /\ ValidRequest(request[i])
        /\ Lookup(request[i].json, "message") = RichMsg
        /\ MessagesOf(response[i])[1] = RichMsg

\* ------------------------------------------------------------------- C3
\* C3 as claimed: the reply to a valid TaskRequest has role = agent, empty
\* metadata and exactly one part, whose whole text matches
\* ^\d{4}-\d{2}-\d{2} \d{2}:\d{2}:\d{2}$.
C3_Original ==
    \A i \in Reqs :
        Responded(i) /\ ValidRequest(request[i]) =>
            /\ IsReply(MessagesOf(response[i])[2])
            /\ MatchesTimestamp(ReplyText(MessagesOf(response[i])[2]))

\* C3 as amended: the reply to a valid TaskRequest has role = agent, empty
\* metadata and exactly one part, whose text is "Current time is: "
\* followed by the timestamp YYYY-MM-DD HH:MM:SS of the wall clock as
\* read while the request was handled.
C3_ReplyIsPrefixedTimestamp ==
    \A i \in Reqs :
        Responded(i) /\ ValidRequest(request[i]) =>
            LET m == MessagesOf(response[i])[2]
                n == Len(S_CurrentTimeIs)
            IN  /\ IsReply(m)
                /\ Len(ReplyText(m)) = n + 19
                /\ SubSeq(ReplyText(m), 1, n) = S_CurrentTimeIs
                /\ read_at[i] <= ticks
                /\ Denotes(SubSeq(ReplyText(m), n + 1, n + 19), ClockAt(read_at[i]))

\* a reply computed after the clock rolled over to 2025-01-01 00:00:00
C3_Witness ==
    \E i \in Reqs :
        /\ Responded(i)
        /\ ValidRequest(request[i])
        /\ read_at[i] = 1
        /\ ReplyText(MessagesOf(response[i])[2])
             = S_CurrentTimeIs \o <<"2","0","2","5","-","0","1","-","0","1"," ",
                                    "0","0",":","0","0",":","0","0">>

\* ------------------------------------------------------------------- C4
\* the request is one of: body not parseable as JSON, empty, null, {},
\* without message.parts, with an empty parts list
C4_Case(r) ==
    \/ r.raw # "json"
    \/ r.json.kind = "null"
    \/ r.json = JDict(<<>>)
    \/ ~PartsPresent(r.json)

\* C4: every POST whose body is not parseable as JSON, is empty or null,
\* is {} or lacks message.parts (or has an empty parts list) is answered
\* 400 with a body carrying status = error and a message; none ends in a
\* 500, an unhandled fault or a success response.
C4_StructuredError ==
    \A i \in Reqs :
        Responded(i) /\ C4_Case(request[i]) => IsError(response[i])

\* ------------------------------------------------------------------- C5
\* the body is an object whose id, message, parts or parts[0].text is
\* missing (or whose parts list is empty), everything before it being of
\* the expected shape; field is the first such field
C5_Missing(b, field) ==
    /\ b.kind = "dict"
    /\ IF ~HasKey(b, "id") THEN field = "id"
       ELSE IF ~HasKey(b, "message") THEN field = "message"
       ELSE /\ Lookup(b, "message").kind = "dict"
            /\ IF ~HasKey(Lookup(b, "message"), "parts") THEN field = "parts"
               ELSE /\ Lookup(Lookup(b, "message"), "parts").kind = "list"
                    /\ IF Len(Lookup(Lookup(b, "message"), "parts").items) = 0
                       THEN field = "parts"
                       ELSE /\ FirstPart(b).kind = "dict"
                            /\ ~HasKey(FirstPart(b), "text")
                            /\ field = "text"

\* the name of a field, as it is spelled
FieldName(field) ==
    SubSeq(ReprKey(field), 2, Len(ReprKey(field)) - 1)

\* C5: when a parsed, non-null body fails the required-field check
\* (missing id, message, parts or parts[0].text, or empty parts list), the
\* 400 response's message, after "Invalid task format: ", names the
\* offending field.
C5_FieldNamed ==
    \A i \in Reqs : \A field \in {"id", "message", "parts", "text"} :
        Responded(i) /\ PostedAsJson(request[i]) /\ C5_Missing(request[i].json, field) =>
            /\ IsError(response[i])
            /\ IsPrefix(S_InvalidTask, Lookup(response[i].json, "message").s)
            /\ Contains(SubSeq(Lookup(response[i].json, "message").s,
                               Len(S_InvalidTask) + 1,
                               Len(Lookup(response[i].json, "message").s)),
                        FieldName(field))

\* ------------------------------------------------------------------- C6
\* C6: a body whose required fields are present but whose id or
\* message.parts[0].text is not a string is answered with a 400 error and
\* never with a success response.
C6_IllTypedRejected ==
    \A i \in Reqs :
        /\ Responded(i)
        /\ ValidRequest(request[i])
        /\ \/ Lookup(request[i].json, "id").kind # "str"
           \/ Lookup(FirstPart(request[i].json), "text").kind # "str"
        => IsError(response[i])

\* ------------------------------------------------------------------- C7
\* C7: after any interleaving of discovery and task requests, every
\* discovery response is a 200 carrying the same AgentDescriptor, with
\* name, description, url and version and with streaming = false and
\* pushNotifications = false.
C7_DiscoveryStable ==
    \A j \in 1..Len(cards) :
        /\ cards[j] = cards[1]
        /\ cards[j].code = 200
        /\ cards[j].mimetype = "application/json"
        /\ \A k \in {"name", "description", "url", "version"} :
              HasKey(cards[j].json, k) /\ Lookup(cards[j].json, k).kind = "str"
        /\ HasKey(cards[j].json, "capabilities")
        /\ Lookup(cards[j].json, "capabilities")
             = JDict(<< <<"streaming", JBool(FALSE)>>,
                        <<"pushNotifications", JBool(FALSE)>> >>)

\* two discoveries with a task served and the clock advanced in between
C7_Witness ==
    /\ Len(cards) = 2
    /\ ticks > 0
    /\ \E i \in Reqs : Responded(i) /\ IsSuccess(response[i])

\* ------------------------------------------------------------------- C8
\* C8: under any interleaving, the response to a request is what the
\* handler returns for that request's body and clock reading alone, so
\* two requests with the same content and clock reading get the same
\* response.
C8_Stateless ==
    /\ \A i \in Reqs :
          Responded(i) => response[i] = handle_task(request[i], ClockAt(read_at[i]))
    /\ \A i, j \in Reqs :
          /\ Responded(i) /\ Responded(j)
          /\ request[i] = request[j]
          /\ read_at[i] = read_at[j]
          => response[i] = response[j]

\* a request validated before, and answered after, another request went
\* through the handler
C8_Witness ==
    /\ Responded(1) /\ Responded(2)
    /\ IsSuccess(response[1]) /\ IsSuccess(response[2])
    /\ request[1] # request[2]
    /\ read_at[2] < read_at[1]

\* ------------------------------------------------------------------- C9
Is2xx(code) ==
    code \in 200..299

\* C9: a client run issues one GET before anything else and never a
\* second one; it issues a POST only after that GET returned success, and
\* exactly one POST per send_task call; a non-2xx discovery response ends
\* the run in the discovery error with no POST made, and a non-2xx
\* submission response makes send_task raise instead of returning.
C9_DiscoverThenSubmit ==
    /\ gets <= 1
    /\ c_pc # "start" => gets = 1
    /\ posts = Len(calls)
    /\ posts > 0 => gets = 1 /\ Is2xx(res.code) /\ c_pc = "discovered"
    /\ res # NoResponse /\ ~Is2xx(res.code) => c_pc = "discovery_failed" /\ posts = 0
    /\ c_pc = "discovery_failed" => discovered = JNull
    /\ \A k \in 1..Len(calls) :
          /\ calls[k].outcome = "returned" =>
                Is2xx(calls[k].response.code) /\ calls[k].result = calls[k].response.json
          /\ calls[k].response # NoResponse /\ ~Is2xx(calls[k].response.code) =>
                calls[k].outcome = "raised" /\ calls[k].result = JNull

\* after a successful discovery, one submission was refused and the next
\* one answered
C9_Witness ==
    /\ Len(calls) = 2
    /\ calls[1].outcome = "raised" /\ calls[1].response.code = 503
    /\ calls[2].outcome = "returned" /\ IsSuccess(calls[2].response)
    /\ gets = 1 /\ posts = 2

\* ------------------------------------------------------------------ C10
AllStages ==
    <<"received", "validated", "processed", "responded">>

AllChecks ==
    <<"is_json", "json_none", "fields">>

C10_Path ==
    \A i \in Reqs :
        /\ IsPrefix(path[i], AllStages) \/ path[i] = <<"received", "responded">>
        /\ IF path[i] = <<>> THEN pc[i] = "idle" ELSE pc[i] = path[i][Len(path[i])]
        /\ response[i] # NoResponse <=> Responded(i)
        /\ Responded(i) /\ IsSuccess(response[i]) =>
              /\ path[i] = AllStages
              /\ checks[i] = AllChecks
              /\ reply_text[i] # <<>>
        /\ Responded(i) /\ ~IsSuccess(response[i]) =>
              /\ path[i] = <<"received", "responded">>
              /\ response[i].code = 400
              /\ current_time[i] = <<>> /\ reply_text[i] = <<>>
              /\ checks[i] # <<>> /\ IsPrefix(checks[i], AllChecks)
              \* the checks before the failing one passed
              /\ Len(checks[i]) >= 2 =>
                    request[i].mimetype \in {"application/json", "application/vnd.api+json"}
              /\ Len(checks[i]) = 3 =>
                    request[i].raw = "json" /\ request[i].json.kind # "null"
        /\ pc[i] \in {"validated", "processed"} => checks[i] = AllChecks

\* a response, once given, is final
C10_Final ==
    \A i \in Reqs :
        Responded(i) => response'[i] = response[i] /\ pc'[i] = pc[i]

\* C10: each call goes received -> validated -> processed -> responded
\* and gets exactly one response; the checks run in the order parseable,
\* non-empty, required fields, and the first failing one goes straight to
\* responded(error) with no timestamp computed and no success envelope.
C10_SinglePath ==
    []C10_Path /\ [][C10_Final]_vars

\* one request failed its last check while another went the whole path
C10_Witness ==
    \E i, j \in Reqs :
        /\ Responded(i) /\ path[i] = <<"received", "responded">>
        /\ checks[i] = AllChecks
        /\ Responded(j) /\ path[j] = AllStages

\* ====================================================== TellTimeAgent
\* ---------------------------------------------------- the session service
\* the key a session is stored under
SessionKey(app_name, user_id, session_id) ==
    [app_name |-> app_name, user_id |-> user_id, session_id |-> session_id]

\* self._agent.name and self._user_id
AgentName ==
    "tell_time_agent"

UserId ==
    "time_agent_user"

\* session_service.get_session(...) is not None
SessionExists(store, key) ==
    \E s \in store : s.key = key

\* session_service.create_session(..., state={}): a session with no events
NewSession(key) ==
    [key |-> key, state |-> JDict(<<>>), events |-> <<>>]

\* the runner appends the new message to the session it runs on
AppendEvent(store, key, content) ==
    { IF s.key = key THEN [s EXCEPT !.events = Append(@, content)] ELSE s :
        s \in store }

\* one call on the session service or on the runner
Op(name, session_id, found) ==
    [op |-> name, session_id |-> session_id, found |-> found]

\* ------------------------------------------------------------ the runner
\* What self._runner.run yields: no event at all, a last event without
\* content, a last event whose content has no parts, a last event with
\* text parts (one of them empty), or an exception out of the model call.
RunnerReplies ==
    { [raised |-> FALSE, events |-> 0, content |-> FALSE, parts |-> <<>>],
      [raised |-> FALSE, events |-> 1, content |-> FALSE, parts |-> <<>>],
      [raised |-> FALSE, events |-> 1, content |-> TRUE, parts |-> <<>>],
      [raised |-> FALSE, events |-> 1, content |-> TRUE,
       parts |-> <<S_CurrentTimeIs, <<>>, S_t1>>],
      [raised |-> TRUE, events |-> 0, content |-> FALSE, parts |-> <<>>] }

\* "\n".join([p.text for p in parts if p.text])
RECURSIVE JoinTexts(_)
JoinTexts(parts) ==
    IF parts = <<>> THEN <<>>
    ELSE LET rest == JoinTexts(Tail(parts))
         IN  IF Head(parts) = <<>> THEN rest
             ELSE IF rest = <<>> THEN Head(parts)
             ELSE Head(parts) \o <<"\n">> \o rest

\* the string invoke returns for what the runner yielded
InvokeResult(reply) ==
    IF reply.events = 0 \/ ~reply.content \/ reply.parts = <<>> THEN <<>>
    ELSE JoinTexts(reply.parts)

\* the queries and session ids callers pass
Queries ==
    { JStr(S_hello), JInt(5), JNull }

SessionIds ==
    { "s1", "s2" }

Invocation(query, session_id, outcome, result) ==
    [query |-> query, session_id |-> session_id, outcome |-> outcome,
     result |-> result]

\* invoke that creates the session on every call, without the None test
invoke_alwayscreate(query, session_id) ==
    /\ Len(invocations) < MaxInvokes
    /\ IF query.kind # "str"
       THEN /\ invocations' = Append(invocations,
                                     Invocation(query, session_id, "ValueError", <<>>))
            /\ UNCHANGED <<sessions, session_ops>>
       ELSE \E reply \in RunnerReplies :
               LET key == SessionKey(AgentName, UserId, session_id)
                   found == SessionExists(sessions, key)
                   created == { s \in sessions : s.key # key } \cup {NewSession(key)}
               IN  /\ sessions' = AppendEvent(created, key, query.s)
                   /\ session_ops' = session_ops
                          \o <<Op("get_session", session_id, found)>>
                          \o <<Op("create_session", session_id, found)>>
                          \o <<Op("run", session_id, TRUE)>>
                   /\ invocations' = Append(invocations,
                          IF reply.raised
                          THEN Invocation(query, session_id, "raised", <<>>)
                          ELSE Invocation(query, session_id, "returned",
                                          InvokeResult(reply)))
    /\ UNCHANGED server_vars
    /\ UNCHANGED client_vars

\* TellTimeAgent.invoke(query, session_id)
invoke(query, session_id) ==
    /\ Len(invocations) < MaxInvokes
    /\ IF query.kind # "str"
       THEN \* raise ValueError("Query must be a string.")
            /\ invocations' = Append(invocations,
                                     Invocation(query, session_id, "ValueError", <<>>))
            /\ UNCHANGED <<sessions, session_ops>>
       ELSE \E reply \in RunnerReplies :
               LET key == SessionKey(AgentName, UserId, session_id)
                   found == SessionExists(sessions, key)
                   created == IF found THEN sessions
                              ELSE sessions \cup {NewSession(key)}
               IN  /\ sessions' = AppendEvent(created, key, query.s)
                   /\ session_ops' = session_ops
                          \o <<Op("get_session", session_id, found)>>
                          \o (IF found THEN <<>>
                              ELSE <<Op("create_session", session_id, found)>>)
                          \o <<Op("run", session_id, TRUE)>>
                   /\ invocations' = Append(invocations,
                          IF reply.raised
                          THEN Invocation(query, session_id, "raised", <<>>)
                          ELSE Invocation(query, session_id, "returned",
                                          InvokeResult(reply)))
    /\ UNCHANGED server_vars
    /\ UNCHANGED client_vars

AgentNext ==
    \E query \in Queries, session_id \in SessionIds : invoke(query, session_id)

AgentSpec ==
    Init /\ [][AgentNext]_vars

\* ------------------------------------------------------------------ C11
\* the positions of session_ops that create a session for session_id
Creations(session_id) ==
    { k \in 1..Len(session_ops) :
        session_ops[k] = Op("create_session", session_id, FALSE)
          \/ session_ops[k] = Op("create_session", session_id, TRUE) }

C11_Sessions ==
    /\ \A sid \in SessionIds :
          \* created at most once, and stored once
          /\ Cardinality(Creations(sid)) <= 1
          /\ Cardinality({ s \in sessions : s.key.session_id = sid }) <= 1
          /\ Creations(sid) # {} <=>
                SessionExists(sessions, SessionKey(AgentName, UserId, sid))
    /\ \A k \in 1..Len(session_ops) :
          \* a session is created only right after a lookup that found none
          /\ session_ops[k].op = "create_session" =>
                /\ k > 1
                /\ session_ops[k - 1] = Op("get_session", session_ops[k].session_id, FALSE)
          \* a lookup finds the session exactly when an earlier call created it
          /\ session_ops[k].op = "get_session" =>
                (session_ops[k].found <=>
                    \E j \in Creations(session_ops[k].session_id) : j < k)
          \* the runner runs on a session that exists by then
          /\ session_ops[k].op = "run" =>
                \E j \in Creations(session_ops[k].session_id) : j < k
    \* the events of a session are the string queries sent to it: none was
    \* lost to a second creation
    /\ \A s \in sessions :
          Len(s.events) = Cardinality({ k \in 1..Len(invocations) :
                                          /\ invocations[k].session_id = s.key.session_id
                                          /\ invocations[k].outcome # "ValueError" })
    /\ \A k \in 1..Len(invocations) :
          invocations[k].outcome = "ValueError" <=> invocations[k].query.kind # "str"

\* a call that raises ValueError touches neither the session service nor
\* the runner
C11_Rejected ==
    /\ Len(invocations') = Len(invocations) + 1
    /\ invocations'[Len(invocations')].query.kind # "str"
    => /\ invocations'[Len(invocations')].outcome = "ValueError"
       /\ sessions' = sessions
       /\ session_ops' = session_ops

====
